---- MODULE Spec2Model ----
(***************************************************************************)
(* The Reddit access client of tandat8503/reddit-mcp                      *)
(* (src/services/reddit_api.py) and the tool handlers that call it        *)
(* (src/main.py), as a state machine.                                      *)
(*                                                                         *)
(* The client is one shared object (reddit_api).  Every invocation is an   *)
(* asyncio coroutine: it runs without interruption between two awaits that *)
(* really suspend (file open/read/write in aiofiles' thread pool, the HTTP *)
(* POST and GET).  One action of the model is one such uninterrupted run.  *)
(* `async with httpx.AsyncClient()` does no I/O and does not suspend, so a *)
(* token check and the request that follows it are one step.               *)
(*                                                                         *)
(* Optional values (Python's None) are sequences: <<>> is None, <<v>> is v. *)
(* Datetimes are integers counting ticks; TicksPerSecond ticks make one    *)
(* second (a datetime has sub-second precision, expires_in is in seconds). *)
(***************************************************************************)
EXTENDS Integers, Sequences, FiniteSets, TLC

(* ------------------------------ bounds -------------------------------- *)
\* ticks per second of the model's clock (a datetime has 10^6)
TicksPerSecond == 2
\* the clock runs from 1 to MaxNow
MaxNow == 4
\* tokens the token endpoint issues in one behaviour
MaxTokens == 2
\* most children of a listing in a response body
MaxChildren == 1
\* invocations in one behaviour
MaxInvocations == 2

(* ------------------------- program constants -------------------------- *)
\* datetime.min, the initial token_expiry: before every reading of the clock
DatetimeMin == 0
\* data.get("expires_in", 3600)
DefaultExpiresIn == 3600
\* self.rate_limit_remaining = 60 and headers.get("X-Ratelimit-Remaining", "60")
DefaultRemaining == 60
\* self.rate_limit_reset = 0 and headers.get("X-Ratelimit-Reset", "0")
DefaultReset == 0
\* limit: int = 25
DefaultLimit == 25
\* _get_env("TIMEOUT_SECONDS", "30")
DefaultTimeout == 30

None == <<>>
Some(v) == <<v>>
IsNone(o) == o = <<>>
Val(o) == o[1]

\* the invocations that may be in flight together
Calls == {"a", "b"}

(* ------------------------- datetime <-> text --------------------------- *)
\* datetime.isoformat(): "YYYY-MM-DDTHH:MM:SS", and ".ffffff" is appended
\* only when the microsecond part is not zero.  The text is the sequence of
\* its numeric fields.
isoformat_noFraction(t) == <<t \div TicksPerSecond>>
isoformat(t) ==
    IF t % TicksPerSecond = 0
    THEN <<t \div TicksPerSecond>>
    ELSE <<t \div TicksPerSecond, t % TicksPerSecond>>

\* A text datetime.fromisoformat() accepts: one the form isoformat() writes.
IsIsoText(s) == Len(s) \in {1, 2}
fromisoformat(s) ==
    IF Len(s) = 1 THEN s[1] * TicksPerSecond
    ELSE s[1] * TicksPerSecond + s[2]
\* a text that is no ISO-8601 date: fromisoformat raises ValueError
GarbageText == <<0, 0, 0>>

\* timedelta(seconds=expires_in)
timedelta(seconds) == seconds * TicksPerSecond

(* --------------------------- configuration ---------------------------- *)
\* The process environment after load_dotenv(): each variable is absent
\* (None) or set to a text, the empty text "" included.  The scopes text is the
\* sequence of its words and the blanks between them.
EnvOf(id, secret, ua, uri, scopes, timeout) ==
    [REDDIT_CLIENT_ID |-> id, REDDIT_CLIENT_SECRET |-> secret,
     REDDIT_USER_AGENT |-> ua, REDDIT_REDIRECT_URI |-> uri,
     REDDIT_OAUTH_SCOPES |-> scopes, TIMEOUT_SECONDS |-> timeout]
Envs ==
    {EnvOf(id, secret, ua, uri, scopes, timeout) :
        id \in {None, Some(""), Some("id")},
        secret \in {None, Some(""), Some("secret")},
        ua \in {None, Some("agent")},
        uri \in {None, Some("http://host")},
        scopes \in {None, Some(<<>>), Some(<<"read", " ", "identity">>)},
        timeout \in {None, Some("5"), Some("abc"), Some("")}}
\* the environment of a process that serves calls
GoodEnv == EnvOf(Some("id"), Some("secret"), None, None, None, None)

\* os.getenv(key, default): the default only when the variable is absent
get_env(e, key, default) == IF IsNone(e[key]) THEN default ELSE Val(e[key])
\* str.split(): the words of the text
split(text) == SelectSeq(text, LAMBDA w : w # " ")
\* int(text): the number a decimal text denotes; ValueError otherwise
IsDecimal(text) == text \in {"5", "30"}
int(text) == IF text = "5" THEN 5 ELSE DefaultTimeout

\* Config.__init__: the six settings are read in order (int() of the timeout
\* may raise), then the two required ones are validated.
ConfigOf(state, error, id, secret, ua, uri, scopes, timeout) ==
    [state |-> state, error |-> error,
     reddit_client_id |-> id, reddit_client_secret |-> secret,
     reddit_user_agent |-> ua, reddit_redirect_uri |-> uri,
     reddit_oauth_scopes |-> scopes, timeout_seconds |-> timeout]
NoConfig == ConfigOf("unset", "", "", "", "", "", <<>>, 0)
ConfigRaised(msg) == ConfigOf("raised", msg, "", "", "", "", <<>>, 0)
Config(e) ==
    LET id == get_env(e, "REDDIT_CLIENT_ID", "")
        secret == get_env(e, "REDDIT_CLIENT_SECRET", "")
        ua == get_env(e, "REDDIT_USER_AGENT", "Mozilla/5.0")
        uri == get_env(e, "REDDIT_REDIRECT_URI", "http://localhost:8080")
        scopes == split(get_env(e, "REDDIT_OAUTH_SCOPES", <<"read">>))
        timeout == get_env(e, "TIMEOUT_SECONDS", "30")
    IN
    IF ~IsDecimal(timeout) THEN ConfigRaised("invalid literal for int()")
    ELSE IF id = "" THEN ConfigRaised("REDDIT_CLIENT_ID is required")
    ELSE IF secret = "" THEN ConfigRaised("REDDIT_CLIENT_SECRET is required")
    ELSE ConfigOf("ok", "", id, secret, ua, uri, scopes, int(timeout))

\* self.client_id, self.client_secret of the client built from a config
CredsOf(cfg) == Some(<<cfg.reddit_client_id, cfg.reddit_client_secret>>)

(* --------------------------- the token file --------------------------- *)
\* reddit_tokens.json as load_tokens_from_storage sees it:
\*   missing     no such file                     (FileNotFoundError)
\*   unreadable  the file cannot be opened        (PermissionError)
\*   text        content that is not JSON, the empty file included
\*   array       JSON, but not an object
\*   record      a JSON object; a key that is absent or null is None / <<>>
\*   readonly    a record in a file that can be read but not written
FileOf(kind, tok, rt, exp) ==
    [kind |-> kind, access_token |-> tok, refresh_token |-> rt, expires_at |-> exp]
NoFile == FileOf("missing", None, None, <<>>)
UnreadableFile == FileOf("unreadable", None, None, <<>>)
TextFile == FileOf("text", None, None, <<>>)
ArrayFile == FileOf("array", None, None, <<>>)
RecordFile(tok, rt, exp) == FileOf("record", tok, rt, exp)
ReadOnlyFile(tok, rt, exp) == FileOf("readonly", tok, rt, exp)

\* An access token: the id tells the tokens apart, exp is the time up to which
\* the token endpoint honours it (the client never sees exp: it keeps its own
\* token_expiry).
TokenOf(id, exp) == [id |-> id, exp |-> exp]
\* The token a previous process may have left in the file with expires_at e.
OldToken(e) == TokenOf(0, IF IsIsoText(e) THEN fromisoformat(e) ELSE DatetimeMin)
\* What the file can hold when the process starts.
InitFiles ==
    {NoFile, UnreadableFile, TextFile, ArrayFile}
    \cup {RecordFile(Some(OldToken(e)), Some("rt"), e) :
            e \in {isoformat(1), isoformat(MaxNow - 1), GarbageText, <<>>}}
    \cup {RecordFile(None, None, isoformat(MaxNow - 1))}
    \cup {ReadOnlyFile(Some(OldToken(isoformat(1))), Some("rt"), isoformat(1))}

(* ------------------------- requests and results ------------------------ *)
Ops == {"get_subreddit_posts", "search_reddit", "get_user_profile",
        "get_subreddit_info", "get_post_comments", "get_trending_subreddits",
        "get_cross_posts"}
\* the operations with a required string argument
ArgOps == Ops \ {"get_trending_subreddits"}
\* a tool name call_tool does not know
UnknownTool == "unknown_tool"

\* An invocation: the operation, its required argument ("" when empty or
\* missing), search's optional subreddit, and how it was invoked: through
\* call_tool ("tool") or as a method of the client ("client").
InvOf(op, arg, sub, via) == [op |-> op, arg |-> arg, sub |-> sub, via |-> via]
NoInv == InvOf("", "", None, "")

\* The GET a call issues: endpoint, query parameters, bearer token.
NoParams == [q |-> None, sort |-> None, t |-> None, limit |-> None,
             restrict_sr |-> None, subreddit |-> None, id |-> None]
ReqOf(endpoint, params, bearer) ==
    [sent |-> TRUE, endpoint |-> endpoint, params |-> params, bearer |-> bearer]
NoRequest == [sent |-> FALSE, endpoint |-> <<>>, params |-> NoParams, bearer |-> None]

\* A parsed JSON body: an object {kind, data: {children: [...]}} with so many
\* children, or the array of two such listings the comments endpoint returns
\* (children: those of the second listing).
BodyOf(shape, n) == [shape |-> shape, children |-> n]
NoData == BodyOf("none", 0)
\* dict() of a list of two {kind, data} objects is {"kind": "data"}
CoercedData == BodyOf("kind_data", 0)

\* ApiCallResult, and how make_request ended: "returned" it, or "raised".
ErrOf(msg, status) == [msg |-> msg, status |-> status]
NoError == ErrOf("", 0)
ResultOf(outcome, success, data, error, rem, rst) ==
    [outcome |-> outcome, success |-> success, data |-> data, error |-> error,
     rate_limit_remaining |-> rem, rate_limit_reset |-> rst]
NoResult == ResultOf("pending", FALSE, NoData, NoError, None, None)
ApiCallResult(success, data, error, rem, rst) ==
    ResultOf("returned", success, data, error, rem, rst)
Raised(exc) == ResultOf("raised", FALSE, NoData, ErrOf(exc, 0), None, None)

\* A rate-limit header: missing, a text that is no number ("abc"), "nan",
\* "inf" (or a number too large for a float), or a decimal number whole.frac.
HdrOf(kind, whole, frac) == [kind |-> kind, whole |-> whole, frac |-> frac]
MissingHdr == HdrOf("missing", 0, 0)

\* What the GET can come back with: a transport exception, or a response with
\* a status, the two headers, and (on 200) a body: a JSON object, a JSON array
\* of two listings, or text that is not JSON.
DataRespOf(kind, status, rem, rst, body) ==
    [kind |-> kind, status |-> status, remaining |-> rem, reset |-> rst, body |-> body]
NoDataResp == DataRespOf("none", 0, MissingHdr, MissingHdr, NoData)

\* The POST to /api/v1/access_token: the grant in its form data, the basic
\* authentication, and the refresh token it carries (none).
TokenReqOf(grant_type, device_id, auth, rt) ==
    [grant_type |-> grant_type, device_id |-> device_id, auth |-> auth,
     refresh_token |-> rt]
NoTokenRequest == TokenReqOf("", "", None, None)

\* The text a tool handler answers with.
ResponseOf(kind, message, count, rl) ==
    [kind |-> kind, message |-> message, count |-> count, rate_limit |-> rl]
NoResponse == ResponseOf("none", "", 0, None)

(* ------------------------------- state -------------------------------- *)
VARIABLES
    env,                   \* the process environment
    config,                \* services.config.config, once Config() has run
    creds,                 \* the client's client_id and client_secret; None: no client
    access_token,          \* self.access_token: None or a token
    token_expiry,          \* self.token_expiry
    refresh_token,         \* self.refresh_token
    rate_limit_remaining,  \* self.rate_limit_remaining
    rate_limit_reset,      \* self.rate_limit_reset
    file,                  \* the content of reddit_tokens.json
    now,                   \* datetime.now()
    issued,                \* the tokens the token endpoint has issued so far
    invoked,               \* the invocations made so far
    pc,                    \* pc[c]: where invocation c is suspended
    inv,                   \* inv[c]: what c was invoked with
    buf,                   \* buf[c]: the file content c's load has read
    token_data,            \* token_data[c]: the record c's save is writing
    request,               \* request[c]: the GET c has issued
    result,                \* result[c]: how the client operation ended
    response,              \* response[c]: the handler's answer
    hist,                  \* hist[c]: what c has done so far (history)
    saved                  \* what the last completed save wrote (history)

vars == <<env, config, creds, access_token, token_expiry, refresh_token, rate_limit_remaining,
          rate_limit_reset, file, now, issued, invoked, pc, inv, buf,
          token_data, request, result, response, hist, saved>>

client == <<access_token, token_expiry, refresh_token>>
startup == <<env, config, creds>>
limits == <<rate_limit_remaining, rate_limit_reset>>

\* hist[c], the history of call c:
\*   tokenReqs     the token requests it has issued
\*   tokenReq      the token request it has issued
\*   tokenAns      what its token request was answered with ("none": not yet)
\*   startValid    the client held an unexpired token when the call started
\*   persistValid  the file held an unexpired token when the call started
\*   loadFailed    the file it read was missing, unreadable or malformed
\*   loaded        it has assigned a record's token to the client
\*   checkNow      the clock when its ensure_valid_token had a token
\*   snapExp       the expiry the client held when it built the record it saves
\*   dataAns       what its data request was answered with
NoHist ==
    [tokenReqs |-> 0, tokenReq |-> NoTokenRequest,
     tokenAns |-> "none", startValid |-> FALSE,
     persistValid |-> FALSE, loadFailed |-> FALSE, loaded |-> FALSE,
     checkNow |-> 0, snapExp |-> DatetimeMin, dataAns |-> NoDataResp]

\* saved: the token and expiry the client held when it last wrote the file
SavedOf(valid, tok, exp) == [valid |-> valid, tok |-> tok, exp |-> exp]
NoSaved == SavedOf(FALSE, None, DatetimeMin)

\* RedditAPIService.__init__
Init ==
    /\ env = GoodEnv
    /\ config = Config(env)
    /\ creds = CredsOf(config)
    /\ access_token = None
    /\ token_expiry = DatetimeMin
    /\ refresh_token = None
    /\ rate_limit_remaining = DefaultRemaining
    /\ rate_limit_reset = DefaultReset
    /\ file \in InitFiles
    /\ now = 1
    /\ issued = 0
    /\ invoked = 0
    /\ pc = [c \in Calls |-> "idle"]
    /\ inv = [c \in Calls |-> NoInv]
    /\ buf = [c \in Calls |-> NoFile]
    /\ token_data = [c \in Calls |-> NoFile]
    /\ request = [c \in Calls |-> NoRequest]
    /\ result = [c \in Calls |-> NoResult]
    /\ response = [c \in Calls |-> NoResponse]
    /\ hist = [c \in Calls |-> NoHist]
    /\ saved = NoSaved

(* ------------------------- the seven operations ----------------------- *)
\* get_subreddit_posts .. get_cross_posts: the endpoint and the query
\* parameters each builds.  None of them looks at its argument first.
Endpoint(i) ==
    CASE i.op = "get_subreddit_posts" -> <<"/r/", i.arg, "/hot.json">>
      [] i.op = "search_reddit" -> <<"/search.json">>
      [] i.op = "get_user_profile" -> <<"/user/", i.arg, "/about.json">>
      [] i.op = "get_subreddit_info" -> <<"/r/", i.arg, "/about.json">>
      [] i.op = "get_post_comments" -> <<"/comments/", i.arg, ".json">>
      [] i.op = "get_trending_subreddits" -> <<"/subreddits/popular.json">>
      [] OTHER -> <<"/api/info.json">>

\* "if subreddit:" adds the two parameters for a subreddit that is not empty
Params_restrictWhenGiven(i) ==
    CASE i.op = "get_subreddit_posts" ->
            [NoParams EXCEPT !.limit = Some(DefaultLimit), !.t = Some("all")]
      [] i.op = "search_reddit" ->
            IF ~IsNone(i.sub)
            THEN [NoParams EXCEPT !.q = Some(i.arg), !.sort = Some("relevance"),
                                  !.t = Some("all"), !.limit = Some(DefaultLimit),
                                  !.restrict_sr = Some("true"), !.subreddit = i.sub]
            ELSE [NoParams EXCEPT !.q = Some(i.arg), !.sort = Some("relevance"),
                                  !.t = Some("all"), !.limit = Some(DefaultLimit)]
      [] i.op = "get_post_comments" ->
            [NoParams EXCEPT !.sort = Some("best"), !.limit = Some(DefaultLimit)]
      [] i.op = "get_trending_subreddits" ->
            [NoParams EXCEPT !.limit = Some(DefaultLimit)]
      [] i.op = "get_cross_posts" -> [NoParams EXCEPT !.id = Some(<<"t3_", i.arg>>)]
      [] OTHER -> NoParams
Params(i) ==
    CASE i.op = "get_subreddit_posts" ->
            [NoParams EXCEPT !.limit = Some(DefaultLimit), !.t = Some("all")]
      [] i.op = "search_reddit" ->
            IF ~IsNone(i.sub) /\ Val(i.sub) # ""
            THEN [NoParams EXCEPT !.q = Some(i.arg), !.sort = Some("relevance"),
                                  !.t = Some("all"), !.limit = Some(DefaultLimit),
                                  !.restrict_sr = Some("true"), !.subreddit = i.sub]
            ELSE [NoParams EXCEPT !.q = Some(i.arg), !.sort = Some("relevance"),
                                  !.t = Some("all"), !.limit = Some(DefaultLimit)]
      [] i.op = "get_post_comments" ->
            [NoParams EXCEPT !.sort = Some("best"), !.limit = Some(DefaultLimit)]
      [] i.op = "get_trending_subreddits" ->
            [NoParams EXCEPT !.limit = Some(DefaultLimit)]
      [] i.op = "get_cross_posts" -> [NoParams EXCEPT !.id = Some(<<"t3_", i.arg>>)]
      [] OTHER -> NoParams

(* ---------------------------- token checks ---------------------------- *)
\* datetime.now() >= self.token_expiry
TokenExpired(t, exp) == t >= exp

\* ensure_valid_token's second test: not self.access_token or expired
NeedsToken_always(tok, exp) == TRUE
NeedsToken(tok, exp) == IsNone(tok) \/ TokenExpired(now, exp)

\* self.token_expiry = datetime.now() + timedelta(seconds=expires_in)
ComputeExpiry_noLifetime(t, expires_in) == t
ComputeExpiry(t, expires_in) == t + timedelta(expires_in)

\* Whether a file content holds a token that is still unexpired.
HoldsValidToken(f) ==
    /\ f.kind \in {"record", "readonly"}
    /\ ~IsNone(f.access_token)
    /\ IsIsoText(f.expires_at)
    /\ now < fromisoformat(f.expires_at)

\* get_client_credentials_token: the token request of a client with the
\* credentials cr that holds the refresh token rt.
TokenRequest_refreshGrant(cr, rt) ==
    IF IsNone(rt)
    THEN TokenReqOf("client_credentials", "mcp_reddit_server", cr, None)
    ELSE TokenReqOf("refresh_token", "mcp_reddit_server", cr, rt)
TokenRequest(cr, rt) ==
    TokenReqOf("client_credentials", "mcp_reddit_server", cr, None)

\* make_request once ensure_valid_token has returned True: the GET goes out
\* with whatever self.access_token holds now.
SendGet(c, i, tok, h) ==
    [pc |-> "data_wait",
     request |-> ReqOf(Endpoint(i), Params(i), tok),
     hist |-> h]

\* ensure_valid_token from its second test on, with the token state (tok, exp):
\* a token request goes out, or the data request does.
EnsureFrom(c, i, tok, exp, h) ==
    IF NeedsToken(tok, exp)
    THEN [pc |-> "token_wait", request |-> NoRequest,
          hist |-> [h EXCEPT !.tokenReqs = @ + 1,
                             !.tokenReq = TokenRequest(creds, refresh_token')]]
    ELSE SendGet(c, i, tok, [h EXCEPT !.checkNow = now])

(* --------------------------- tool handlers ---------------------------- *)
\* create_summary_with_rate_limit: "if rate_limit_remaining:" adds the line
SummaryRateLimit(rem) == IF IsNone(rem) \/ Val(rem) = 0 THEN None ELSE rem

FailedMessage(op) ==
    CASE op = "get_subreddit_posts" -> "Failed to get subreddit posts"
      [] op = "search_reddit" -> "Failed to search Reddit"
      [] op = "get_user_profile" -> "Failed to get user profile"
      [] op = "get_subreddit_info" -> "Failed to get subreddit info"
      [] op = "get_post_comments" -> "Failed to get post comments"
      [] op = "get_trending_subreddits" -> "Failed to get trending subreddits"
      [] OTHER -> "Failed to get cross posts"

RequiredMessage(op) ==
    CASE op \in {"get_subreddit_posts", "get_subreddit_info"} -> "Subreddit name is required"
      [] op = "search_reddit" -> "Search query is required"
      [] op = "get_user_profile" -> "Username is required"
      [] OTHER -> "Post ID is required"

\* validate_api_response: raises unless the payload is an object whose
\* data.children is a non-empty list
ValidateRaises(data) == ~(data.shape = "object" /\ data.children > 0)

\* handle_*, were an exception of the client operation to leave the handler
\* and call_tool uncaught.
HandlerResponse_propagates(i, res) ==
    IF i.via # "tool" THEN NoResponse
    ELSE IF res.outcome = "raised"
    THEN ResponseOf("raised", res.error.msg, 0, None)
    ELSE IF ~res.success
    THEN ResponseOf("error", FailedMessage(i.op), 0, None)
    ELSE IF i.op \in {"get_subreddit_posts", "search_reddit",
                      "get_trending_subreddits", "get_cross_posts"}
    THEN IF ValidateRaises(res.data)
         THEN ResponseOf("error", FailedMessage(i.op), 0, None)
         ELSE ResponseOf("success", "Found", res.data.children,
                         SummaryRateLimit(res.rate_limit_remaining))
    ELSE IF i.op \in {"get_user_profile", "get_subreddit_info"}
    THEN IF res.data.shape = "none"
         THEN ResponseOf("error", FailedMessage(i.op), 0, None)
         ELSE IF res.data.shape = "kind_data"
         THEN ResponseOf("error", "not found", 0, None)
         ELSE ResponseOf("success", "Profile", 1,
                         SummaryRateLimit(res.rate_limit_remaining))
    ELSE IF res.data.shape \in {"none", "kind_data"}
         THEN ResponseOf("error", "No comments data found", 0, None)
         ELSE ResponseOf("error", FailedMessage(i.op), 0, None)
\* handle_*: what the handler makes of the client's result
HandlerResponse(i, res) ==
    IF i.via # "tool" THEN NoResponse
    ELSE IF res.outcome = "raised" \/ ~res.success
    THEN ResponseOf("error", FailedMessage(i.op), 0, None)
    ELSE IF i.op \in {"get_subreddit_posts", "search_reddit",
                      "get_trending_subreddits", "get_cross_posts"}
    THEN IF ValidateRaises(res.data)
         THEN ResponseOf("error", FailedMessage(i.op), 0, None)
         ELSE ResponseOf("success", "Found", res.data.children,
                         SummaryRateLimit(res.rate_limit_remaining))
    ELSE IF i.op \in {"get_user_profile", "get_subreddit_info"}
    THEN IF res.data.shape = "none"
         THEN ResponseOf("error", FailedMessage(i.op), 0, None)
         ELSE IF res.data.shape = "kind_data"
         THEN ResponseOf("error", "not found", 0, None)
         ELSE ResponseOf("success", "Profile", 1,
                         SummaryRateLimit(res.rate_limit_remaining))
    ELSE IF res.data.shape \in {"none", "kind_data"}
         THEN ResponseOf("error", "No comments data found", 0, None)
         ELSE ResponseOf("error", FailedMessage(i.op), 0, None)

(* ------------------------------ actions -------------------------------- *)
Upd(f, c, v) == [f EXCEPT ![c] = v]

\* The call ends: the client operation returned (or raised) res.
Finish_retryOnFailure(c, i, res) ==
    /\ pc' = Upd(pc, c, IF res.outcome = "returned" /\ ~res.success
                         THEN pc[c] ELSE "done")
    /\ result' = Upd(result, c, res)
    /\ response' = Upd(response, c, HandlerResponse(i, res))
Finish(c, i, res) ==
    /\ pc' = Upd(pc, c, "done")
    /\ result' = Upd(result, c, res)
    /\ response' = Upd(response, c, HandlerResponse(i, res))

\* make_request returns "Failed to get valid access token"
NoTokenResult ==
    ApiCallResult(FALSE, NoData, ErrOf("Failed to get valid access token", 0), None, None)

\* The history a call starts with.
StartHist ==
    [NoHist EXCEPT !.startValid = ~IsNone(access_token) /\ now < token_expiry,
                   !.persistValid = HoldsValidToken(file)]

\* A file content load_tokens_from_storage cannot take a token state from.
LoadFails(f) ==
    \/ f.kind \in {"missing", "unreadable", "text", "array"}
    \/ f.kind \in {"record", "readonly"} /\ f.expires_at # <<>> /\ ~IsIsoText(f.expires_at)

\* call_tool / handle_*: a tool is called.  An unknown name and an empty
\* required argument are answered at once; otherwise the client operation runs.
\* A client operation called directly runs whatever its argument is.
\* ensure_valid_token: with no token in memory the file is loaded first.
Invoke(c, i) ==
    /\ pc[c] = "idle"
    /\ ~IsNone(creds)
    /\ UNCHANGED startup
    /\ invoked < MaxInvocations
    /\ invoked' = invoked + 1
    /\ inv' = Upd(inv, c, i)
    /\ UNCHANGED <<client, limits, file, now, issued, buf, token_data, saved>>
    /\ IF i.via = "tool" /\ i.op = UnknownTool
       THEN /\ pc' = Upd(pc, c, "done")
            /\ response' = Upd(response, c, ResponseOf("error", "Unknown tool", 0, None))
            /\ UNCHANGED <<request, result, hist>>
       ELSE IF i.via = "tool" /\ i.op \in ArgOps /\ i.arg = ""
       THEN /\ pc' = Upd(pc, c, "done")
            /\ response' = Upd(response, c, ResponseOf("error", RequiredMessage(i.op), 0, None))
            /\ UNCHANGED <<request, result, hist>>
       ELSE IF IsNone(access_token)
       THEN /\ pc' = Upd(pc, c, "load")
            /\ hist' = Upd(hist, c, StartHist)
            /\ UNCHANGED <<request, result, response>>
       ELSE LET e == EnsureFrom(c, i, access_token, token_expiry, StartHist) IN
            /\ pc' = Upd(pc, c, e.pc)
            /\ request' = Upd(request, c, e.request)
            /\ hist' = Upd(hist, c, e.hist)
            /\ UNCHANGED <<result, response>>

\* load_tokens_from_storage, up to the end of f.read(): the content is read.
\* FileNotFoundError is caught (start fresh); PermissionError is not, and
\* leaves ensure_valid_token and make_request as an exception.
LoadRead(c) ==
    /\ pc[c] = "load"
    /\ UNCHANGED startup
    /\ UNCHANGED <<client, limits, file, now, issued, invoked, inv, token_data, saved>>
    /\ IF file.kind = "unreadable"
       THEN /\ Finish(c, inv[c], Raised("PermissionError"))
            /\ hist' = Upd(hist, c, [hist[c] EXCEPT !.loadFailed = TRUE])
            /\ UNCHANGED <<buf, request>>
       ELSE /\ pc' = Upd(pc, c, "load_parse")
            /\ buf' = Upd(buf, c, file)
            /\ hist' = Upd(hist, c, [hist[c] EXCEPT !.loadFailed = LoadFails(file)])
            /\ UNCHANGED <<request, result, response>>

\* load_tokens_from_storage from json.loads on, then the rest of
\* ensure_valid_token.  A missing file and content that is not JSON are caught.
\* token_data.get on a JSON array raises AttributeError, fromisoformat on a
\* text that is no date raises ValueError: neither is caught, and by then
\* access_token and refresh_token are already assigned.
LoadParse(c) ==
    /\ pc[c] = "load_parse"
    /\ UNCHANGED startup
    /\ UNCHANGED <<limits, file, now, issued, invoked, inv, buf, token_data, saved>>
    /\ LET b == buf[c] IN
       IF b.kind \in {"missing", "text"}
       THEN LET e == EnsureFrom(c, inv[c], access_token, token_expiry, hist[c]) IN
            /\ UNCHANGED <<client, result, response>>
            /\ pc' = Upd(pc, c, e.pc)
            /\ request' = Upd(request, c, e.request)
            /\ hist' = Upd(hist, c, e.hist)
       ELSE IF b.kind = "array"
       THEN /\ Finish(c, inv[c], Raised("AttributeError"))
            /\ UNCHANGED <<client, request, hist>>
       ELSE /\ access_token' = b.access_token
            /\ refresh_token' = b.refresh_token
            /\ IF b.expires_at = <<>>
               THEN LET e == EnsureFrom(c, inv[c], b.access_token, token_expiry,
                                        [hist[c] EXCEPT !.loaded = TRUE]) IN
                    /\ token_expiry' = token_expiry
                    /\ pc' = Upd(pc, c, e.pc)
                    /\ request' = Upd(request, c, e.request)
                    /\ hist' = Upd(hist, c, e.hist)
                    /\ UNCHANGED <<result, response>>
               ELSE IF ~IsIsoText(b.expires_at)
               THEN /\ token_expiry' = token_expiry
                    /\ Finish(c, inv[c], Raised("ValueError"))
                    /\ UNCHANGED <<request, hist>>
               ELSE LET x == fromisoformat(b.expires_at)
                        e == EnsureFrom(c, inv[c], b.access_token, x,
                                        [hist[c] EXCEPT !.loaded = TRUE])
                    IN
                    /\ token_expiry' = x
                    /\ pc' = Upd(pc, c, e.pc)
                    /\ request' = Upd(request, c, e.request)
                    /\ hist' = Upd(hist, c, e.hist)
                    /\ UNCHANGED <<result, response>>

(* ------------------------- the token endpoint ------------------------- *)
\* What the POST to /api/v1/access_token can come back with: a non-200 status,
\* a transport exception, a 200 whose body is not a JSON object, or a 200 with
\* a JSON object that may lack access_token and whose expires_in is absent, a
\* number of seconds, or not a number.
TokenRespOf(kind, has_token, ei, n) ==
    [kind |-> kind, has_token |-> has_token, ei |-> ei, expires_in |-> n]
ExpiresInValues == {1}
TokenResponses ==
    {TokenRespOf(k, FALSE, "absent", 0) : k \in {"http_error", "exception", "bad_body"}}
    \cup {TokenRespOf("ok", ht, "num", n) : ht \in BOOLEAN, n \in ExpiresInValues}
    \cup {TokenRespOf("ok", ht, e, 0) : ht \in BOOLEAN, e \in {"absent", "bad"}}

\* get_client_credentials_token on the response r, the endpoint's next token
\* being t: what it returns, and what it assigns before returning.
\*   non-200, exception, bad body: returns False, assigns nothing
\*   200: access_token = data.get("access_token"), then
\*        timedelta(seconds=expires_in) raises TypeError when expires_in is not
\*        a number: returns False with access_token already assigned;
\*        otherwise token_expiry = now + expires_in and it returns True.
AcquireOf(ret, set_tok, tok, set_exp, exp) ==
    [ret |-> ret, set_tok |-> set_tok, tok |-> tok, set_exp |-> set_exp, exp |-> exp]
Acquire_trueOnFailure(r, t) ==
    IF r.kind # "ok" THEN AcquireOf(TRUE, FALSE, None, FALSE, DatetimeMin)
    ELSE LET tok == IF r.has_token THEN Some(t) ELSE None IN
         IF r.ei = "bad" THEN AcquireOf(FALSE, TRUE, tok, FALSE, DatetimeMin)
         ELSE AcquireOf(TRUE, TRUE, tok, TRUE,
                ComputeExpiry(now, IF r.ei = "absent" THEN DefaultExpiresIn ELSE r.expires_in))
Acquire(r, t) ==
    IF r.kind # "ok" THEN AcquireOf(FALSE, FALSE, None, FALSE, DatetimeMin)
    ELSE LET tok == IF r.has_token THEN Some(t) ELSE None IN
         IF r.ei = "bad" THEN AcquireOf(FALSE, TRUE, tok, FALSE, DatetimeMin)
         ELSE AcquireOf(TRUE, TRUE, tok, TRUE,
                ComputeExpiry(now, IF r.ei = "absent" THEN DefaultExpiresIn ELSE r.expires_in))

\* The lifetime the endpoint grants with the response r.
GrantedExpiry(r) ==
    now + timedelta(IF r.ei = "num" THEN r.expires_in ELSE DefaultExpiresIn)

\* The token request of call c is answered with r.
\* On success save_tokens_to_storage runs: with no access_token it returns at
\* once and the data request goes out (with "Bearer None"); otherwise the
\* record to write is built from the client's fields now, and the file is
\* opened.
TokenResponse(c, r) ==
    /\ pc[c] = "token_wait"
    /\ UNCHANGED startup
    /\ r.kind = "ok" /\ r.has_token => issued < MaxTokens
    /\ LET t == TokenOf(issued + 1, GrantedExpiry(r))
           a == Acquire(r, t)
           tok == IF a.set_tok THEN a.tok ELSE access_token
           exp == IF a.set_exp THEN a.exp ELSE token_expiry
           h == [hist[c] EXCEPT !.tokenAns = r.kind, !.checkNow = now]
       IN
       /\ access_token' = tok
       /\ token_expiry' = exp
       /\ UNCHANGED <<refresh_token, limits, file, now, invoked, inv, buf, saved>>
       /\ issued' = IF r.kind = "ok" /\ r.has_token THEN issued + 1 ELSE issued
       /\ IF ~a.ret
          THEN /\ Finish(c, inv[c], NoTokenResult)
               /\ hist' = Upd(hist, c, h)
               /\ UNCHANGED <<request, token_data>>
          ELSE IF IsNone(tok)
          THEN LET g == SendGet(c, inv[c], tok, h) IN
               /\ pc' = Upd(pc, c, g.pc)
               /\ request' = Upd(request, c, g.request)
               /\ hist' = Upd(hist, c, g.hist)
               /\ UNCHANGED <<result, response, token_data>>
          ELSE /\ pc' = Upd(pc, c, "save_open")
               /\ token_data' = Upd(token_data, c,
                                    RecordFile(tok, refresh_token, isoformat(exp)))
               /\ hist' = Upd(hist, c, [h EXCEPT !.snapExp = exp])
               /\ UNCHANGED <<request, result, response>>

\* save_tokens_to_storage: aiofiles.open(path, 'w').  Opening truncates the
\* file.  It fails on a file that cannot be opened; the exception is swallowed,
\* the acquisition still returns True and the data request goes out.
SaveOpen(c) ==
    /\ pc[c] = "save_open"
    /\ UNCHANGED startup
    /\ UNCHANGED <<client, limits, now, issued, invoked, inv, buf, token_data,
                   result, response, saved>>
    /\ IF file.kind \in {"unreadable", "readonly"}
       THEN LET g == SendGet(c, inv[c], access_token, hist[c]) IN
            /\ pc' = Upd(pc, c, g.pc)
            /\ request' = Upd(request, c, g.request)
            /\ hist' = Upd(hist, c, g.hist)
            /\ UNCHANGED file
       ELSE /\ pc' = Upd(pc, c, "save_write")
            /\ file' = TextFile
            /\ UNCHANGED <<request, hist>>

\* What the file holds after rec is written from offset 0 over cur.  Each
\* writer has its own offset: written over a longer record that another writer
\* put there since this one's open, rec leaves that record's tail behind it.
WriteOver(cur, rec) ==
    IF cur.kind = "record" /\ Len(cur.expires_at) > Len(rec.expires_at)
    THEN TextFile
    ELSE rec

\* save_tokens_to_storage: f.write(...) and the close; then the acquisition
\* returns True, ensure_valid_token returns True, and make_request sends the
\* data request with the access_token the client holds now.
SaveWrite(c) ==
    /\ pc[c] = "save_write"
    /\ UNCHANGED startup
    /\ file' = WriteOver(file, token_data[c])
    /\ saved' = SavedOf(file'.kind = "record", token_data[c].access_token,
                        hist[c].snapExp)
    /\ LET g == SendGet(c, inv[c], access_token, hist[c]) IN
       /\ pc' = Upd(pc, c, g.pc)
       /\ request' = Upd(request, c, g.request)
       /\ hist' = Upd(hist, c, g.hist)
    /\ UNCHANGED <<client, limits, now, issued, invoked, inv, buf, token_data,
                   result, response>>

(* -------------------------- the data endpoint ------------------------- *)
RemainingHeaders ==
    {MissingHdr, HdrOf("text", 0, 0), HdrOf("nan", 0, 0), HdrOf("inf", 0, 0),
     HdrOf("num", 0, 0), HdrOf("num", 5, 7)}
ResetHeaders ==
    {MissingHdr, HdrOf("text", 0, 0), HdrOf("inf", 0, 0), HdrOf("num", 30, 0)}

\* int(float(headers.get(name, default))): float() raises ValueError on a text
\* that is no number, int() raises ValueError on nan and OverflowError on
\* infinity; otherwise the number truncated.
ParsedOf(exc, val) == [exc |-> exc, val |-> val]
IntFloat(h, default) ==
    CASE h.kind = "missing" -> ParsedOf("none", default)
      [] h.kind = "num" -> ParsedOf("none", h.whole)
      [] h.kind = "inf" -> ParsedOf("OverflowError", 0)
      [] OTHER -> ParsedOf("ValueError", 0)

Bodies ==
    {BodyOf(sh, n) : sh \in {"object", "array"}, n \in 0..MaxChildren}
    \cup {BodyOf("not_json", 0)}
DataResponses ==
    {DataRespOf("exception", 0, MissingHdr, MissingHdr, NoData)}
    \cup {DataRespOf("response", 200, h1, h2, b) :
            h1 \in RemainingHeaders, h2 \in ResetHeaders, b \in Bodies}
    \cup {DataRespOf("response", st, h1, h2, NoData) :
            st \in {429, 500}, h1 \in RemainingHeaders, h2 \in ResetHeaders}

\* ApiCallResult(success=True, data=response.json(), ...): data is declared
\* Optional[Dict[str, Any]].  An object is kept as it is.  An array is not a
\* dict: pydantic 2 raises ValidationError, pydantic 1 makes dict(array) of it.
DataField(body, pydantic) ==
    CASE body.shape = "object" -> ParsedOf("none", body)
      [] body.shape = "array" /\ pydantic = 1 -> ParsedOf("none", CoercedData)
      [] OTHER -> ParsedOf("ValidationError", NoData)

\* make_request from the response on, were the result built from the counters
\* the client held before this response was parsed.
Outcome_countersOfClient(r, pydantic) ==
    LET p1 == IntFloat(r.remaining, DefaultRemaining)
        p2 == IntFloat(r.reset, DefaultReset)
        rem == IF p1.exc = "none" THEN p1.val ELSE DefaultRemaining
        rst == IF p2.exc = "none" THEN p2.val ELSE DefaultReset
        d == DataField(r.body, pydantic)
        failure(msg) == ApiCallResult(FALSE, NoData, ErrOf(msg, 0), None, None)
    IN
    IF r.kind = "exception"
    THEN [res |-> failure("transport"), rem |-> rate_limit_remaining, rst |-> rate_limit_reset]
    ELSE IF p1.exc = "OverflowError"
    THEN [res |-> failure("OverflowError"), rem |-> rate_limit_remaining, rst |-> rate_limit_reset]
    ELSE IF p2.exc = "OverflowError"
    THEN [res |-> failure("OverflowError"), rem |-> rem, rst |-> rate_limit_reset]
    ELSE IF r.status # 200
    THEN [res |-> ApiCallResult(FALSE, NoData, ErrOf("HTTP", r.status),
                                Some(rate_limit_remaining), Some(rate_limit_reset)),
          rem |-> rem, rst |-> rst]
    ELSE IF r.body.shape = "not_json"
    THEN [res |-> failure("JSONDecodeError"), rem |-> rem, rst |-> rst]
    ELSE IF d.exc # "none"
    THEN [res |-> failure(d.exc), rem |-> rem, rst |-> rst]
    ELSE [res |-> ApiCallResult(TRUE, d.val, NoError,
                                Some(rate_limit_remaining), Some(rate_limit_reset)),
          rem |-> rem, rst |-> rst]
\* make_request from the response on: the two counters, then the result.
\* An exception that is not ValueError or TypeError leaves the inner try and
\* is caught by the outer one: the result is a failure without counters, and
\* the counters not yet assigned keep their values.
Outcome(r, pydantic) ==
    LET p1 == IntFloat(r.remaining, DefaultRemaining)
        p2 == IntFloat(r.reset, DefaultReset)
        rem == IF p1.exc = "none" THEN p1.val ELSE DefaultRemaining
        rst == IF p2.exc = "none" THEN p2.val ELSE DefaultReset
        d == DataField(r.body, pydantic)
        failure(msg) == ApiCallResult(FALSE, NoData, ErrOf(msg, 0), None, None)
    IN
    IF r.kind = "exception"
    THEN [res |-> failure("transport"), rem |-> rate_limit_remaining, rst |-> rate_limit_reset]
    ELSE IF p1.exc = "OverflowError"
    THEN [res |-> failure("OverflowError"), rem |-> rate_limit_remaining, rst |-> rate_limit_reset]
    ELSE IF p2.exc = "OverflowError"
    THEN [res |-> failure("OverflowError"), rem |-> rem, rst |-> rate_limit_reset]
    ELSE IF r.status # 200
    THEN [res |-> ApiCallResult(FALSE, NoData, ErrOf("HTTP", r.status), Some(rem), Some(rst)),
          rem |-> rem, rst |-> rst]
    ELSE IF r.body.shape = "not_json"
    THEN [res |-> failure("JSONDecodeError"), rem |-> rem, rst |-> rst]
    ELSE IF d.exc # "none"
    THEN [res |-> failure(d.exc), rem |-> rem, rst |-> rst]
    ELSE [res |-> ApiCallResult(TRUE, d.val, NoError, Some(rem), Some(rst)),
          rem |-> rem, rst |-> rst]

\* The GET of call c is answered with r.
DataResponse(c, r) ==
    /\ pc[c] = "data_wait"
    /\ UNCHANGED startup
    /\ \E pydantic \in {1, 2} :
         LET o == Outcome(r, pydantic) IN
         /\ rate_limit_remaining' = o.rem
         /\ rate_limit_reset' = o.rst
         /\ Finish(c, inv[c], o.res)
    /\ hist' = Upd(hist, c, [hist[c] EXCEPT !.dataAns = r])
    /\ UNCHANGED <<client, file, now, issued, invoked, inv, buf, token_data,
                   request, saved>>

\* The caller has its answer; the coroutine is gone.
Return(c) ==
    /\ pc[c] = "done"
    /\ UNCHANGED startup
    /\ pc' = Upd(pc, c, "idle")
    /\ inv' = Upd(inv, c, NoInv)
    /\ buf' = Upd(buf, c, NoFile)
    /\ token_data' = Upd(token_data, c, NoFile)
    /\ request' = Upd(request, c, NoRequest)
    /\ result' = Upd(result, c, NoResult)
    /\ response' = Upd(response, c, NoResponse)
    /\ hist' = Upd(hist, c, NoHist)
    /\ UNCHANGED <<client, limits, file, now, issued, invoked, saved>>

\* Time passes.
Tick ==
    /\ now < MaxNow
    /\ UNCHANGED startup
    /\ now' = now + 1
    /\ UNCHANGED <<client, limits, file, issued, invoked, pc, inv, buf, token_data,
                   request, result, response, hist, saved>>

\* The process ends and a new one starts: RedditAPIService.__init__ again,
\* with the file as the old process left it.
Restart ==
    /\ \A c \in Calls : pc[c] = "idle"
    /\ UNCHANGED startup
    /\ access_token' = None
    /\ token_expiry' = DatetimeMin
    /\ refresh_token' = None
    /\ rate_limit_remaining' = DefaultRemaining
    /\ rate_limit_reset' = DefaultReset
    /\ UNCHANGED <<file, now, issued, invoked, pc, inv, buf, token_data,
                   request, result, response, hist, saved>>

(* --------------------------- specifications --------------------------- *)
Args == {"", "x"}
Invocations ==
    {InvOf(op, a, None, via) : op \in Ops \ {"search_reddit"}, a \in Args,
                               via \in {"tool", "client"}}
    \cup {InvOf("search_reddit", a, sub, via) :
            a \in Args, sub \in {None, Some(""), Some("s")}, via \in {"tool", "client"}}
    \cup {InvOf(UnknownTool, "x", None, "tool")}

\* One step of the program: C the invocations that may run, alone (one at a
\* time) or interleaved; I, T, D what they are invoked with and what the two
\* endpoints answer.
InvokeAlone(c, i) == (\A d \in Calls : pc[d] = "idle") /\ Invoke(c, i)

Step(C, alone, I, T, D) ==
    \/ \E c \in C, i \in I : IF alone THEN InvokeAlone(c, i) ELSE Invoke(c, i)
    \/ \E c \in C : LoadRead(c)
    \/ \E c \in C : LoadParse(c)
    \/ \E c \in C, r \in T : TokenResponse(c, r)
    \/ \E c \in C : SaveOpen(c)
    \/ \E c \in C : SaveWrite(c)
    \/ \E c \in C, r \in D : DataResponse(c, r)
    \/ \E c \in C : Return(c)

\* Data responses that leave the rate-limit counters alone.
PlainDataResponses ==
    {DataRespOf("exception", 0, MissingHdr, MissingHdr, NoData),
     DataRespOf("response", 200, MissingHdr, MissingHdr, BodyOf("object", MaxChildren)),
     DataRespOf("response", 429, MissingHdr, MissingHdr, NoData),
     DataRespOf("response", 500, MissingHdr, MissingHdr, NoData)}

\* The token life cycle, one invocation at a time, over process restarts:
\* each of the seven operations, called on the client.
SeqInvocations == {InvOf(op, "x", None, "client") : op \in Ops}
NextSeq ==
    \/ Step({"a"}, TRUE, SeqInvocations, TokenResponses, PlainDataResponses)
    \/ Tick
    \/ Restart
SpecSeq == Init /\ [][NextSeq]_vars

\* The token life cycle under concurrent invocations.
ConcInvocations ==
    {InvOf("get_post_comments", "x", None, "client")}
ConcTokenResponses ==
    {TokenRespOf("http_error", FALSE, "absent", 0),
     TokenRespOf("ok", FALSE, "num", 1),
     TokenRespOf("ok", TRUE, "num", 1),
     TokenRespOf("ok", TRUE, "bad", 0)}
ConcDataResponses ==
    {DataRespOf("exception", 0, MissingHdr, MissingHdr, NoData),
     DataRespOf("response", 200, MissingHdr, MissingHdr, BodyOf("object", MaxChildren))}
Next ==
    \/ Step(Calls, FALSE, ConcInvocations, ConcTokenResponses, ConcDataResponses)
    \/ Tick
Spec == Init /\ [][Next]_vars

\* The data request and its result, for every operation: the process starts
\* with no token file and the token endpoint answers well.
InitData == Init /\ file = NoFile
GoodTokenResponses == {TokenRespOf("ok", TRUE, "absent", 0)}
NextData ==
    Step({"a"}, TRUE, Invocations, GoodTokenResponses, DataResponses)
SpecData == InitData /\ [][NextData]_vars

\* Process start: services.config builds the global config from the
\* environment; services.reddit_api, imported after it, builds the global
\* client from the config.  An exception of Config() ends the import.
ConstructConfig ==
    /\ config.state = "unset"
    /\ config' = Config(env)
    /\ UNCHANGED <<env, creds, client, limits, file, now, issued, invoked, pc, inv,
                   buf, token_data, request, result, response, hist, saved>>
CreateClient ==
    /\ config.state = "ok"
    /\ IsNone(creds)
    /\ creds' = CredsOf(config)
    /\ UNCHANGED <<env, config, client, limits, file, now, issued, invoked, pc, inv,
                   buf, token_data, request, result, response, hist, saved>>
InitConfig ==
    /\ env \in Envs
    /\ config = NoConfig
    /\ creds = None
    /\ access_token = None
    /\ token_expiry = DatetimeMin
    /\ refresh_token = None
    /\ rate_limit_remaining = DefaultRemaining
    /\ rate_limit_reset = DefaultReset
    /\ file = NoFile
    /\ now = 1
    /\ issued = 0
    /\ invoked = 0
    /\ pc = [c \in Calls |-> "idle"]
    /\ inv = [c \in Calls |-> NoInv]
    /\ buf = [c \in Calls |-> NoFile]
    /\ token_data = [c \in Calls |-> NoFile]
    /\ request = [c \in Calls |-> NoRequest]
    /\ result = [c \in Calls |-> NoResult]
    /\ response = [c \in Calls |-> NoResponse]
    /\ hist = [c \in Calls |-> NoHist]
    /\ saved = NoSaved
NextConfig ==
    \/ ConstructConfig
    \/ CreateClient
    \/ \E c \in {"a"} : Invoke(c, InvOf("get_trending_subreddits", "", None, "client"))
SpecConfig == InitConfig /\ [][NextConfig]_vars

\* The rate-limit counters under concurrent invocations: the two calls share
\* the one client, and each response brings its own headers.
LimitInvocations == {InvOf("get_subreddit_posts", "x", None, "tool")}
LimitDataResponses ==
    {DataRespOf("exception", 0, MissingHdr, MissingHdr, NoData)}
    \cup {DataRespOf("response", 200, h1, h2, BodyOf("object", MaxChildren)) :
            h1 \in {MissingHdr, HdrOf("text", 0, 0), HdrOf("num", 0, 0), HdrOf("num", 5, 7)},
            h2 \in {MissingHdr, HdrOf("num", 30, 0)}}
    \cup {DataRespOf("response", 429, h1, h2, NoData) :
            h1 \in {HdrOf("num", 0, 0), HdrOf("num", 5, 7)},
            h2 \in {MissingHdr, HdrOf("num", 30, 0)}}
NextLimits ==
    Step(Calls, FALSE, LimitInvocations, GoodTokenResponses, LimitDataResponses)
SpecLimits == InitData /\ [][NextLimits]_vars

\* The tools, one call at a time: every tool name with its argument present
\* or empty, every content of the token file, every answer of the two
\* endpoints.
ToolInvocations == {i \in Invocations : i.via = "tool"}
ToolDataResponses ==
    PlainDataResponses
    \cup {DataRespOf("response", 200, MissingHdr, MissingHdr, b) : b \in Bodies}
NextTools ==
    Step({"a"}, TRUE, ToolInvocations, TokenResponses, ToolDataResponses)
SpecTools == Init /\ [][NextTools]_vars

(* ------------------------------- claims ------------------------------- *)
\* The client operation of call c has returned or raised.
ClientEnded(c) == pc[c] = "done" /\ result[c].outcome # "pending"
\* Call c is past ensure_valid_token with a token request answered well.
Acquired(c) ==
    /\ hist[c].tokenAns = "ok"
    /\ pc[c] \in {"save_open", "save_write", "data_wait", "done"}
    /\ pc[c] = "done" => request[c].sent

\* C1: one invocation at a time.  After a token request answered 200 with a
\* token and a lifetime, the stored expiry is the time of the acquisition plus
\* that lifetime (the expiry the endpoint granted the token with); and a call
\* that starts while the client holds a token and the clock is before the
\* stored expiry issues no token request and sends its data request with the
\* cached token.
C1_TokenReuse ==
    \A c \in Calls :
        /\ Acquired(c) /\ ~IsNone(access_token)
              => token_expiry = Val(access_token).exp
        /\ hist[c].startValid
              => /\ hist[c].tokenReqs = 0
                 /\ hist[c].tokenAns = "none"
                 /\ request[c].sent
                 /\ request[c].bearer = access_token
\* a second call sends, without a token request, the token the first acquired
C1_Witness ==
    \E c \in Calls :
        /\ invoked = 2 /\ issued = 1
        /\ hist[c].startValid /\ pc[c] = "data_wait"
        /\ request[c].bearer = access_token
        /\ Val(access_token).id = 1
        /\ token_expiry = Val(access_token).exp

\* C2: one invocation at a time.  A call that starts when the client holds no
\* unexpired token and the file holds none issues exactly one token request,
\* and that request is answered before the call's GET goes out.
C2_ExactlyOneAcquisition ==
    \A c \in Calls :
        LET need == pc[c] # "idle" /\ ~hist[c].startValid /\ ~hist[c].persistValid IN
        /\ need /\ ClientEnded(c)
              => hist[c].tokenReqs = 1 /\ hist[c].tokenAns # "none"
        /\ need /\ request[c].sent
              => hist[c].tokenReqs = 1 /\ hist[c].tokenAns # "none"

\* C3: when the token request of a call is answered with a non-200 status or
\* fails in transport, the call returns a failure result and has issued no GET.
C3_NoGetWithoutToken ==
    \A c \in Calls :
        hist[c].tokenAns \in {"http_error", "exception"}
            => /\ pc[c] = "done"
               /\ result[c].outcome = "returned"
               /\ ~result[c].success
               /\ ~request[c].sent
C3_Witness ==
    \E c \in Calls :
        /\ hist[c].tokenAns = "http_error"
        /\ hist[c].tokenReqs = 1
        /\ pc[c] = "done" /\ ~result[c].success /\ ~request[c].sent

\* The two rate-limit headers of the answer are numbers or missing.
PlainHeaders(r) ==
    /\ r.remaining.kind \in {"missing", "num"}
    /\ r.reset.kind \in {"missing", "num"}

\* C4: on a 200 answer with a JSON body, an object or the array of two
\* listings, the result of every operation is a success whose payload is that
\* body and whose counters are the ones read from the answer.
C4_PayloadPassedThrough ==
    \A c \in Calls :
        LET r == hist[c].dataAns IN
        /\ ClientEnded(c) /\ r.kind = "response" /\ r.status = 200
        /\ r.body.shape \in {"object", "array"} /\ PlainHeaders(r)
        => /\ result[c].success
           /\ result[c].data = r.body
           /\ result[c].rate_limit_remaining = Some(rate_limit_remaining)
           /\ result[c].rate_limit_reset = Some(rate_limit_reset)

\* C5: after an answer of the data endpoint, a counter whose header was
\* missing or was not a finite number holds its default, and the call
\* succeeded exactly when the status was 200 (the body being a JSON object).
C5_HeaderDefaults ==
    \A c \in Calls :
        LET r == hist[c].dataAns IN
        /\ ClientEnded(c) /\ r.kind = "response"
        /\ r.status = 200 => r.body.shape = "object"
        => /\ r.remaining.kind # "num" => rate_limit_remaining = DefaultRemaining
           /\ r.reset.kind # "num" => rate_limit_reset = DefaultReset
           /\ result[c].success <=> r.status = 200

\* C6: an operation invoked with its required argument empty issues no
\* network call, however it is invoked, and ends with an error.
C6_EmptyArgumentRejected ==
    \A c \in Calls :
        inv[c].op \in ArgOps /\ inv[c].arg = ""
            => /\ hist[c].tokenReqs = 0
               /\ ~request[c].sent
               /\ pc[c] = "done"
               /\ response[c].kind = "error" \/ ~result[c].success

\* C7: one invocation at a time.  A call that loads the record the last save
\* wrote leaves the client with the token and the expiry that were saved, and
\* issues a token request only if that expiry has passed.
C7_PersistenceRoundTrip ==
    \A c \in Calls :
        /\ hist[c].loaded /\ saved.valid /\ hist[c].tokenAns = "none"
        /\ buf[c].access_token = saved.tok
        => /\ access_token = saved.tok
           /\ token_expiry = saved.exp
           /\ hist[c].tokenReqs = 1 => now >= saved.exp
\* a new process loads the saved record and sends its token unrenewed
C7_Witness ==
    \E c \in Calls :
        /\ hist[c].loaded /\ saved.valid /\ buf[c].access_token = saved.tok
        /\ Val(saved.tok).id = 1
        /\ saved.exp % TicksPerSecond # 0
        /\ pc[c] = "data_wait" /\ hist[c].tokenReqs = 0
        /\ request[c].bearer = saved.tok
        /\ now < saved.exp

\* C8: under every interleaving, a step that issues a token request leaves the
\* client without a token or with an expired one.
C8_AcquireOnlyWhenNeeded ==
    [][\A c \in Calls :
          pc[c] # "token_wait" /\ pc'[c] = "token_wait"
              => IsNone(access_token') \/ now' >= token_expiry']_vars
\* both calls found the token expired and both have a token request in flight
C8_Witness ==
    \E c, d \in Calls :
        /\ c # d
        /\ pc[c] = "token_wait" /\ pc[d] = "token_wait"
        /\ hist[c].tokenReqs = 1 /\ hist[d].tokenReqs = 1
        /\ ~IsNone(access_token) /\ now >= token_expiry

\* C9: under every interleaving, the token a call sends with its GET had not
\* expired when the call's ensure_valid_token had it.
C9_NeverSendsExpiredToken ==
    \A c \in Calls :
        request[c].sent /\ ~IsNone(request[c].bearer)
            => hist[c].checkNow < Val(request[c].bearer).exp

\* C10: one invocation at a time.  A call whose load found the file missing,
\* unreadable or malformed does not end in an exception: it goes on to one
\* token request, the client holding no token as if no record had existed.
C10_LoadFailureStartsFresh ==
    \A c \in Calls :
        hist[c].loadFailed /\ pc[c] # "load_parse"
            => /\ result[c].outcome # "raised"
               /\ hist[c].tokenReqs = 1
               /\ hist[c].tokenAns = "none" => IsNone(access_token)

\* C11: one invocation at a time.  A client operation never ends in an
\* exception; a non-200 answer of the data endpoint gives a failure result
\* that carries the status, a transport exception of the GET a failure result
\* that carries the exception.
C11_AlwaysTaggedResult ==
    \A c \in Calls :
        LET r == hist[c].dataAns IN
        /\ result[c].outcome # "raised"
        /\ pc[c] = "done" /\ inv[c].via = "client" => result[c].outcome = "returned"
        /\ ClientEnded(c) /\ r.kind = "response" /\ r.status # 200
              => ~result[c].success /\ result[c].error = ErrOf("HTTP", r.status)
        /\ ClientEnded(c) /\ r.kind = "exception"
              => ~result[c].success /\ result[c].error = ErrOf("transport", 0)

\* The listing operations, whose handlers go through validate_api_response.
ListingOps == {"get_subreddit_posts", "search_reddit",
               "get_trending_subreddits", "get_cross_posts"}

\* C12: a listing tool whose data request is answered 200 with a listing of
\* zero items answers its caller with a success that reports zero items, not
\* with an error.
C12_EmptyListingIsSuccess ==
    \A c \in Calls :
        LET r == hist[c].dataAns IN
        /\ inv[c].via = "tool" /\ inv[c].op \in ListingOps
        /\ pc[c] = "done" /\ r.kind = "response" /\ r.status = 200
        /\ r.body = BodyOf("object", 0) /\ PlainHeaders(r)
        => /\ result[c].success
           /\ response[c].kind = "success"
           /\ response[c].count = 0

\* C13: one invocation at a time.  Within one client operation at most one
\* token request and at most one GET are issued: an answered token request is
\* not issued again, an answer of the data endpoint (200, 429, 500, a
\* transport exception) ends the operation with its result, and the GET once
\* sent is the operation's only one.
C13_NoRetry ==
    [][\A c \in Calls :
          /\ hist'[c].tokenReqs <= 1
          /\ pc[c] = "token_wait" /\ hist'[c].tokenAns # "none"
                => pc'[c] \in {"done", "save_open", "data_wait"}
          /\ pc[c] = "token_wait" /\ pc'[c] = "done"
                => ~request'[c].sent /\ ~result'[c].success
          /\ pc[c] = "data_wait" /\ hist'[c].dataAns.kind # "none"
                => pc'[c] = "done" /\ result'[c].outcome = "returned"
          /\ request[c].sent /\ pc'[c] # "idle"
                => request'[c] = request[c]]_vars
\* a call that requested a token and was answered 500 by the data endpoint
\* has ended in failure
C13_Witness ==
    \E c \in Calls :
        /\ hist[c].tokenReqs = 1 /\ hist[c].tokenAns = "ok"
        /\ hist[c].dataAns.kind = "response" /\ hist[c].dataAns.status = 500
        /\ pc[c] = "done" /\ ~result[c].success
        /\ result[c].error = ErrOf("HTTP", 500)

\* Call c has ended because its token request failed.
AcquisitionFailed(c) ==
    pc[c] = "done" /\ hist[c].tokenAns # "none" /\ ~request[c].sent

\* C14: one invocation at a time.  When a call has ended because its token
\* acquisition failed, the client still holds no unexpired token, so that the
\* next call's ensure_valid_token requests a token again; and a call whose
\* token request was answered 200 with a token goes on to its data request.
C14_FailureNotRemembered ==
    \A c \in Calls :
        /\ AcquisitionFailed(c)
              => /\ NeedsToken(access_token, token_expiry)
                 /\ hist[c].tokenAns # "ok"
        /\ hist[c].tokenAns = "ok" /\ ~IsNone(access_token) /\ pc[c] = "done"
              => request[c].sent

\* A required setting of the environment is absent or empty.
Lacks(e, key) == IsNone(e[key]) \/ Val(e[key]) = ""

\* C15: once Config() has run, it has raised exactly when the client id or the
\* client secret is absent or empty; a client exists, and a call is served,
\* only with both credentials.
C15_ConfigRequiresCredentials ==
    /\ config.state # "unset"
          => (config.state = "raised"
                <=> Lacks(env, "REDDIT_CLIENT_ID") \/ Lacks(env, "REDDIT_CLIENT_SECRET"))
    /\ ~IsNone(creds) => Val(creds)[1] # "" /\ Val(creds)[2] # ""
    /\ invoked > 0 => ~IsNone(creds)

\* C16: one invocation at a time.  Once a call's token acquisition has
\* reported success and its data request is out, the file holds the record of
\* the token state the acquisition put in memory: a load of it gives the same
\* access token and the same expiry.
C16_PersistedAfterAcquisition ==
    \A c \in Calls :
        Acquired(c) /\ pc[c] \in {"data_wait", "done"}
            => /\ file.kind = "record"
               /\ file.access_token = access_token
               /\ IsIsoText(file.expires_at)
               /\ fromisoformat(file.expires_at) = token_expiry

\* The value a rate-limit header h sets its counter to.
CounterOf(h, default) == IF h.kind = "num" THEN h.whole ELSE default

\* C17: a step in which a call receives an HTTP response of the data endpoint
\* sets both counters from the response's headers and the result carries the
\* two counters; a step in which the GET fails in transport, or in which the
\* call ends for lack of a token, leaves the counters as they were.
C17_RateLimitUpdated ==
    [][\A c \in Calls :
          LET r == hist'[c].dataAns IN
          /\ pc[c] = "data_wait" /\ pc'[c] = "done" /\ r.kind = "response"
                => /\ rate_limit_remaining' = CounterOf(r.remaining, DefaultRemaining)
                   /\ rate_limit_reset' = CounterOf(r.reset, DefaultReset)
                   /\ result'[c].rate_limit_remaining = Some(rate_limit_remaining')
                   /\ result'[c].rate_limit_reset = Some(rate_limit_reset')
          /\ pc[c] = "data_wait" /\ pc'[c] = "done" /\ r.kind = "exception"
                => UNCHANGED limits
          /\ pc[c] = "token_wait" /\ pc'[c] = "done"
                => UNCHANGED limits]_vars

\* C18: the GET of a search goes to /search.json with q the query, sort
\* relevance, t all and limit 25, and carries restrict_sr = true and
\* subreddit = the given name exactly when a non-empty subreddit was given.
C18_SearchRequest ==
    \A c \in Calls :
        inv[c].op = "search_reddit" /\ request[c].sent
            => LET p == request[c].params
                   given == ~IsNone(inv[c].sub) /\ Val(inv[c].sub) # ""
               IN
               /\ request[c].endpoint = <<"/search.json">>
               /\ p.q = Some(inv[c].arg)
               /\ p.sort = Some("relevance")
               /\ p.t = Some("all")
               /\ p.limit = Some(25)
               /\ p.id = None
               /\ given => p.restrict_sr = Some("true") /\ p.subreddit = inv[c].sub
               /\ ~given => p.restrict_sr = None /\ p.subreddit = None
\* the search tool, called with a query and a subreddit, has its GET out
C18_Witness ==
    \E c \in Calls :
        /\ inv[c] = InvOf("search_reddit", "x", Some("s"), "tool")
        /\ pc[c] = "data_wait" /\ request[c].sent
        /\ request[c].params.q = Some("x")
        /\ request[c].params.restrict_sr = Some("true")
        /\ request[c].params.subreddit = Some("s")

\* C19: a step in which a call's token acquisition reports failure (the call
\* ends without a data request) leaves the access token, the expiry and the
\* file as they were.
C19_FailureLeavesTokenState ==
    [][\A c \in Calls :
          pc[c] = "token_wait" /\ pc'[c] = "done"
              => /\ access_token' = access_token
                 /\ token_expiry' = token_expiry
                 /\ file' = file]_vars

Quiescent == \A c \in Calls : pc[c] = "idle"
\* The client holds a token this process acquired together with its expiry.
HoldsAcquiredToken ==
    /\ ~IsNone(access_token)
    /\ Val(access_token).id > 0
    /\ token_expiry = Val(access_token).exp

\* C21: under every interleaving of concurrent acquisitions and saves, when
\* no invocation is in flight and the client holds a token acquired in this
\* process (the token file being writable), the file holds one intact record
\* whose access token and expiry are the ones in memory.
C21_QuiescentPersistence ==
    Quiescent /\ HoldsAcquiredToken /\ file.kind \notin {"unreadable", "readonly"}
        => /\ file.kind = "record"
           /\ file.access_token = access_token
           /\ file.expires_at = isoformat(token_expiry)

\* C22: two concurrent invocations on the one client.  The counters a call's
\* result carries are the ones parsed from the headers of that call's own
\* response (the default for a header that is missing or not a number),
\* whatever another call has written into the client since.
C22_OwnCounters ==
    \A c \in Calls :
        ClientEnded(c) /\ result[c].outcome = "returned"
                       /\ ~IsNone(result[c].rate_limit_remaining)
            => /\ hist[c].dataAns.kind = "response"
               /\ result[c].rate_limit_remaining
                     = Some(CounterOf(hist[c].dataAns.remaining, DefaultRemaining))
               /\ result[c].rate_limit_reset
                     = Some(CounterOf(hist[c].dataAns.reset, DefaultReset))
\* both calls were waiting for their responses together; the one answered
\* first carries its own counters although the other's have replaced them
\* in the client
C22_Witness ==
    \E c, d \in Calls :
        /\ c # d
        /\ pc[c] = "done" /\ pc[d] = "done"
        /\ result[c].success /\ result[d].success
        /\ result[c].rate_limit_remaining = Some(5)
        /\ result[d].rate_limit_remaining = Some(0)
        /\ rate_limit_remaining = 0
        /\ hist[c].tokenReqs = 1 /\ hist[d].tokenReqs = 1

\* C23: every call of a tool, whatever its name and arguments, ends with a
\* text response, an error or a success, never with an exception; a name
\* that is none of the seven tools is answered "Unknown tool" with no load,
\* no token request and no GET; and a call whose client operation raised is
\* answered with an error response.
C23_CallToolAlwaysAnswers ==
    \A c \in Calls :
        pc[c] = "done" /\ inv[c].via = "tool"
            => /\ response[c].kind \in {"error", "success"}
               /\ inv[c].op = UnknownTool
                     => /\ response[c] = ResponseOf("error", "Unknown tool", 0, None)
                        /\ result[c] = NoResult
                        /\ request[c] = NoRequest
                        /\ hist[c] = NoHist
               /\ result[c].outcome = "raised" => response[c].kind = "error"
\* a tool call whose client operation raised while loading the token file
\* has been answered
C23_Witness ==
    \E c \in Calls :
        /\ pc[c] = "done" /\ inv[c].via = "tool" /\ inv[c].op \in Ops
        /\ result[c].outcome = "raised"
        /\ result[c].error.msg = "PermissionError"
        /\ response[c].kind = "error"

\* C24: a tool call answered with a success whose result carries a
\* rate-limit remaining counter reports that counter in its summary, for
\* every value of the counter, 0 included.
C24_SummaryReportsCounter ==
    \A c \in Calls :
        (/\ pc[c] = "done" /\ inv[c].via = "tool"
         /\ response[c].kind = "success"
         /\ ~IsNone(result[c].rate_limit_remaining))
            => response[c].rate_limit = result[c].rate_limit_remaining

====
